---- MODULE Spec2Model ----
(***************************************************************************)
(* Model of generate_schema.py: the SQLite type normaliser                 *)
(* (sql_type_to_diesel_type), the schema emitter (generate_schema) and the *)
(* command-line entry point (__main__).                                    *)
(*                                                                         *)
(* Text is modelled by TLA+ strings; lines are built by concatenation      *)
(* exactly as the f-strings of the source build them.                      *)
(***************************************************************************)
EXTENDS Integers, Sequences, FiniteSets, TLC

VARIABLES
    pc,             \* position of the process
    argv_len,       \* len(sys.argv)
    sqlite_master,  \* names of the rows of sqlite_master with type = 'table'
    conn,           \* "none" | "open" | "closed"
    sql_log,        \* statements handed to cursor.execute, in order
    tables,         \* result of the table query (line 51)
    idx,            \* number of completed iterations of the loop of line 56
    columns,        \* columns[i]: PRAGMA table_info rows of iteration i
    foreign_keys,   \* foreign_keys[i]: PRAGMA foreign_key_list rows of iteration i
    schema_lines,   \* line 53
    joinable_lines, \* line 54
    schema,         \* value returned by generate_schema
    stdout,         \* what was printed on standard output
    stderr,         \* what was written on standard error
    exit_status,    \* -1 while running
    sql_type,       \* argument of a direct call of sql_type_to_diesel_type
    is_nullable,    \* argument of a direct call of sql_type_to_diesel_type
    diesel_ret      \* its return value ("-" before the call)

vars == <<pc, argv_len, sqlite_master, conn, sql_log, tables, idx, columns,
          foreign_keys, schema_lines, joinable_lines, schema, stdout, stderr,
          exit_status, sql_type, is_nullable, diesel_ret>>

progVars == <<argv_len, sqlite_master, conn, sql_log, tables, idx, columns,
              foreign_keys, schema_lines, joinable_lines, schema, stdout,
              stderr, exit_status>>

normVars == <<sql_type, is_nullable, diesel_ret>>

(***************************************************************************)
(* Bounds of the model.                                                    *)
(***************************************************************************)
MaxArgv   == 3   \* len(sys.argv) ranges over 1..MaxArgv
MaxTables == 2   \* the table query returns at most MaxTables rows
MaxRows   == 2   \* the PRAGMAs of one run return at most MaxRows rows in total
MaxParts  == 2   \* a raw type string is made of at most MaxParts fragments

(***************************************************************************)
(* Strings.                                                                *)
(***************************************************************************)
LowerCase == "abcdefghijklmnopqrstuvwxyz"
UpperCase == "ABCDEFGHIJKLMNOPQRSTUVWXYZ"
\* The characters of the model's names, in code-point order.
CodeOrder == " ()0123456789ABCDEFGHIJKLMNOPQRSTUVWXYZ_abcdefghijklmnopqrstuvwxyz"

Char(s, i) == SubSeq(s, i, i)

IndexIn(alphabet, c) ==
    IF \E i \in 1..Len(alphabet) : Char(alphabet, i) = c
    THEN CHOOSE i \in 1..Len(alphabet) : Char(alphabet, i) = c
    ELSE 0

\* str.upper() on one character.
UpperChar(c) ==
    IF IndexIn(LowerCase, c) # 0 THEN Char(UpperCase, IndexIn(LowerCase, c)) ELSE c

RECURSIVE Upper(_)
Upper(s) ==
    IF Len(s) = 0 THEN ""
    ELSE UpperChar(Char(s, 1)) \o Upper(SubSeq(s, 2, Len(s)))

\* Python's  sub in s.
Contains(s, sub) ==
    \E i \in 1..(Len(s) - Len(sub) + 1) : SubSeq(s, i, i + Len(sub) - 1) = sub

\* BINARY collation: code-point order, a proper prefix first.
RECURSIVE StrLess(_, _)
StrLess(a, b) ==
    IF Len(b) = 0 THEN FALSE
    ELSE IF Len(a) = 0 THEN TRUE
    ELSE IF Char(a, 1) = Char(b, 1)
         THEN StrLess(SubSeq(a, 2, Len(a)), SubSeq(b, 2, Len(b)))
         ELSE IndexIn(CodeOrder, Char(a, 1)) < IndexIn(CodeOrder, Char(b, 1))

\* '\n'.join(lines)
RECURSIVE Join(_)
Join(lines) ==
    IF Len(lines) = 0 THEN ""
    ELSE IF Len(lines) = 1 THEN lines[1]
    ELSE lines[1] \o "\n" \o Join(Tail(lines))

(***************************************************************************)
(* sql_type_to_diesel_type                                                 *)
(***************************************************************************)
TypeMappingKeys ==
    {"INTEGER", "TEXT", "REAL", "FLOAT", "BOOLEAN", "BOOL", "DATE", "TIME",
     "DATETIME", "TIMESTAMP", "BLOB"}

\* The dictionary type_mapping.
type_mapping ==
    [k \in TypeMappingKeys |->
        CASE k = "INTEGER"   -> "Integer"
          [] k = "TEXT"      -> "Text"
          [] k = "REAL"      -> "Float"
          [] k = "FLOAT"     -> "Float"
          [] k = "BOOLEAN"   -> "Bool"
          [] k = "BOOL"      -> "Bool"
          [] k = "DATE"      -> "Date"
          [] k = "TIME"      -> "Time"
          [] k = "DATETIME"  -> "Timestamp"
          [] k = "TIMESTAMP" -> "Timestamp"
          [] k = "BLOB"      -> "Binary"]

\* type_mapping.get(key, default)
TypeMappingGet(key, default) ==
    IF key \in TypeMappingKeys THEN type_mapping[key] ELSE default

\* The rule list applied to the upper-cased type string.
MatchRules(up) ==
    IF Contains(up, "INT") THEN "Integer"
    ELSE IF Contains(up, "CHAR") \/ Contains(up, "TEXT") THEN "Text"
    ELSE IF Contains(up, "REAL") \/ Contains(up, "FLOAT") \/ Contains(up, "DOUBLE")
         THEN "Float"
    ELSE IF Contains(up, "DATE")
         THEN IF Contains(up, "TIME") THEN "Timestamp" ELSE "Date"
    ELSE TypeMappingGet(up, "Text")

\* A plausible slip: the type string is matched without upper-casing it.
DieselTypeCaseSensitive(raw) == MatchRules(raw)

\* The value of diesel_type before the nullable wrapping.
DieselType(raw) == MatchRules(Upper(raw))

sql_type_to_diesel_type(raw, nullable) ==
    IF nullable THEN "Nullable<" \o DieselType(raw) \o ">" ELSE DieselType(raw)

(***************************************************************************)
(* generate_schema: the pure parts of the loop body.                       *)
(***************************************************************************)
\* Python truthiness of an integer.
Truthy(n) == n # 0

\* A plausible slip: only the not-null flag decides.
IsNullableIgnoringPk(not_null, is_pk) == ~Truthy(not_null)

\* is_nullable = not not_null and not is_pk
IsNullable(not_null, is_pk) == ~Truthy(not_null) /\ ~Truthy(is_pk)

\* The loop that finds the primary key: <<>> is None, <<n>> is the name n.
FirstPkColumn(cols) ==
    IF \E i \in 1..Len(cols) : Truthy(cols[i].pk)
    THEN LET i == CHOOSE j \in 1..Len(cols) :
                     /\ Truthy(cols[j].pk)
                     /\ \A k \in 1..(j - 1) : ~Truthy(cols[k].pk)
         IN <<cols[i].name>>
    ELSE <<>>

\* if not primary_key: primary_key = 'id'   (None and '' are both falsy)
PrimaryKey(cols) ==
    LET primary_key == FirstPkColumn(cols)
    IN IF primary_key = <<>> \/ primary_key = <<"">> THEN "id" ELSE primary_key[1]

\* The binding line of one column.
ColumnLine(col) ==
    "        " \o col.name \o " -> "
        \o sql_type_to_diesel_type(col.type, IsNullable(col.notnull, col.pk)) \o ","

\* A plausible slip: the loop over the columns stops one short.
ColumnLinesDropLast(cols) == [i \in 1..(Len(cols) - 1) |-> ColumnLine(cols[i])]

ColumnLines(cols) == [i \in 1..Len(cols) |-> ColumnLine(cols[i])]

\* The lines one iteration appends to schema_lines.
TableBlock(table_name, cols) ==
    <<"diesel::table! {",
      "    " \o table_name \o " (" \o PrimaryKey(cols) \o ") {">>
    \o ColumnLines(cols)
    \o <<"    }", "}", "">>

JoinableLine(table_name, fk) ==
    "diesel::joinable!(" \o table_name \o " -> " \o fk.table
        \o " (" \o fk.from \o "));"

\* A plausible slip: self-references are not skipped.
JoinableForUnfiltered(table_name, fks) ==
    [i \in 1..Len(fks) |-> JoinableLine(table_name, fks[i])]

\* The lines one iteration appends to joinable_lines.
JoinableFor(table_name, fks) ==
    LET keep(fk) == fk.table # table_name
        kept     == SelectSeq(fks, keep)
    IN [i \in 1..Len(kept) |-> JoinableLine(table_name, kept[i])]

\* A plausible slip: the blank separator is appended unconditionally.
JoinableSectionAlwaysBlank(jl) == jl \o <<"">>

\* if joinable_lines: extend with them and append ''
JoinableSection(jl) == IF Len(jl) # 0 THEN jl \o <<"">> ELSE <<>>

\* The closing statement over table_names.
AllowStatement(table_names) ==
    <<"diesel::allow_tables_to_appear_in_same_query!(">>
    \o [i \in 1..Len(table_names) |-> "    " \o table_names[i] \o ","]
    \o <<");">>

\* The two lines schema_lines starts with.
Header == <<"// @generated automatically by generate_schema.py", "">>

(***************************************************************************)
(* The table query.                                                        *)
(***************************************************************************)
\* Descending order of name.
RECURSIVE OrderByNameDesc(_)
OrderByNameDesc(S) ==
    IF S = {} THEN <<>>
    ELSE LET m == CHOOSE x \in S : \A y \in S \ {x} : StrLess(y, x)
         IN <<m>> \o OrderByNameDesc(S \ {m})

\* ORDER BY name
RECURSIVE OrderByName(_)
OrderByName(S) ==
    IF S = {} THEN <<>>
    ELSE LET m == CHOOSE x \in S : \A y \in S \ {x} : StrLess(x, y)
         IN <<m>> \o OrderByName(S \ {m})

\* A plausible slip: the query orders the names the wrong way round.
TableQueryDescending(master) ==
    OrderByNameDesc({n \in master : n # "sqlite_sequence"})

\* SELECT name FROM sqlite_master WHERE type='table'
\*   AND name != 'sqlite_sequence' ORDER BY name
TableQuery(master) == OrderByName({n \in master : n # "sqlite_sequence"})

TableQuerySql ==
    "SELECT name FROM sqlite_master WHERE type='table' AND name != 'sqlite_sequence' ORDER BY name"

(***************************************************************************)
(* The databases and command lines of the model.                           *)
(***************************************************************************)
\* Names sqlite_master may hold: user tables and tables SQLite itself owns
\* (sqlite_sequence of AUTOINCREMENT, sqlite_stat1 of ANALYZE).
CatalogNames == {"posts", "users", "sqlite_sequence", "sqlite_stat1"}

\* SQLite reserves the prefix sqlite_ for its own tables.
IsEngineTable(name) == Len(name) >= 7 /\ SubSeq(name, 1, 7) = "sqlite_"

Catalogs ==
    {S \in SUBSET CatalogNames : Cardinality(S \ {"sqlite_sequence"}) <= MaxTables}

ColNames == {"", "uid"}
ColTypes == {"INTEGER", "TEXT"}

\* One row of PRAGMA table_info: (cid, name, type, notnull, dflt_value, pk).
ColumnRows ==
    [cid : 0..(Cardinality(ColNames) - 1), name : ColNames, type : ColTypes,
     notnull : 0..1, dflt_value : {"None"}, pk : 0..Cardinality(ColNames)]

\* What PRAGMA table_info can return: cid counts from 0, names are unique,
\* and the columns of the primary key are numbered 1..k in pk.
ColumnLists ==
    UNION {{cols \in [1..n -> ColumnRows] :
               /\ \A i \in 1..n : cols[i].cid = i - 1
               /\ \A i, j \in 1..n : i # j => cols[i].name # cols[j].name
               /\ \A i, j \in 1..n : i # j /\ cols[i].pk # 0 => cols[i].pk # cols[j].pk
               /\ \A i \in 1..n :
                     cols[i].pk <= Cardinality({j \in 1..n : cols[j].pk # 0})}
           : n \in 0..Cardinality(ColNames)}

RefTables == {"posts", "users"}

\* One row of PRAGMA foreign_key_list:
\* (id, seq, table, from, to, on_update, on_delete, match).
ForeignKeyRows ==
    [id : 0..(MaxRows - 1), seq : {0}, table : RefTables, from : {"user_id"},
     to : {"id"}, on_update : {"NO ACTION"}, on_delete : {"NO ACTION"},
     match : {"NONE"}]

ForeignKeyLists ==
    UNION {{fks \in [1..n -> ForeignKeyRows] : \A i \in 1..n : fks[i].id = i - 1}
           : n \in 0..MaxRows}

RECURSIVE TotalLen(_)
TotalLen(seqs) ==
    IF Len(seqs) = 0 THEN 0 ELSE Len(seqs[1]) + TotalLen(Tail(seqs))

\* Rows the PRAGMAs have returned so far in this run.
RowsRead == TotalLen(columns) + TotalLen(foreign_keys)

Usage == "Usage: python generate_schema.py <database_path>"
Traceback == "Traceback (most recent call last):"

(***************************************************************************)
(* The process.                                                            *)
(***************************************************************************)
Init ==
    /\ pc = "start"
    /\ argv_len \in 1..MaxArgv
    /\ sqlite_master \in Catalogs
    /\ conn = "none"
    /\ sql_log = <<>>
    /\ tables = <<>>
    /\ idx = 0
    /\ columns = <<>>
    /\ foreign_keys = <<>>
    /\ schema_lines = <<>>
    /\ joinable_lines = <<>>
    /\ schema = ""
    /\ stdout = ""
    /\ stderr = ""
    /\ exit_status = -1
    /\ sql_type = ""
    /\ is_nullable = FALSE
    /\ diesel_ret = "-"

\* Lines 110-114: the argument check.
Main ==
    /\ pc = "start"
    /\ IF argv_len # 2
       THEN /\ stdout' = stdout \o Usage \o "\n"
            /\ exit_status' = 1
            /\ pc' = "exited"
       ELSE /\ pc' = "connect"
            /\ UNCHANGED <<stdout, exit_status>>
    /\ UNCHANGED <<argv_len, sqlite_master, conn, sql_log, tables, idx, columns,
                   foreign_keys, schema_lines, joinable_lines, schema, stderr>>
    /\ UNCHANGED normVars

\* Line 46-47: sqlite3.connect succeeds.
Connect ==
    /\ pc = "connect"
    /\ conn' = "open"
    /\ pc' = "query"
    /\ UNCHANGED <<argv_len, sqlite_master, sql_log, tables, idx, columns,
                   foreign_keys, schema_lines, joinable_lines, schema, stdout,
                   stderr, exit_status>>
    /\ UNCHANGED normVars

\* Line 46: sqlite3.connect raises; nothing catches it.
ConnectFails ==
    /\ pc = "connect"
    /\ stderr' = stderr \o Traceback \o "\n"
    /\ exit_status' = 1
    /\ pc' = "exited"
    /\ UNCHANGED <<argv_len, sqlite_master, conn, sql_log, tables, idx, columns,
                   foreign_keys, schema_lines, joinable_lines, schema, stdout>>
    /\ UNCHANGED normVars

\* Lines 50-54.
QueryTables ==
    /\ pc = "query"
    /\ sql_log' = Append(sql_log, TableQuerySql)
    /\ tables' = TableQuery(sqlite_master)
    /\ schema_lines' = Header
    /\ joinable_lines' = <<>>
    /\ pc' = "loop"
    /\ UNCHANGED <<argv_len, sqlite_master, conn, idx, columns, foreign_keys,
                   schema, stdout, stderr, exit_status>>
    /\ UNCHANGED normVars

\* Lines 58-59.
TableInfo ==
    /\ pc = "loop"
    /\ idx < Len(tables)
    /\ sql_log' = Append(sql_log, "PRAGMA table_info(" \o tables[idx + 1] \o ")")
    /\ \E cols \in ColumnLists :
          /\ Len(cols) <= MaxRows - RowsRead
          /\ columns' = Append(columns, cols)
    /\ pc' = "fk_list"
    /\ UNCHANGED <<argv_len, sqlite_master, conn, tables, idx, foreign_keys,
                   schema_lines, joinable_lines, schema, stdout, stderr,
                   exit_status>>
    /\ UNCHANGED normVars

\* Lines 62-63.
ForeignKeyList ==
    /\ pc = "fk_list"
    /\ sql_log' =
          Append(sql_log, "PRAGMA foreign_key_list(" \o tables[idx + 1] \o ")")
    /\ \E fks \in ForeignKeyLists :
          /\ Len(fks) <= MaxRows - RowsRead
          /\ foreign_keys' = Append(foreign_keys, fks)
    /\ pc' = "emit"
    /\ UNCHANGED <<argv_len, sqlite_master, conn, tables, idx, columns,
                   schema_lines, joinable_lines, schema, stdout, stderr,
                   exit_status>>
    /\ UNCHANGED normVars

\* Lines 50, 58, 62: cursor.execute raises; nothing catches it, line 106 is
\* not reached.
ExecuteFails ==
    /\ \/ pc = "query"
       \/ pc = "loop" /\ idx < Len(tables)
       \/ pc = "fk_list"
    /\ stderr' = stderr \o Traceback \o "\n"
    /\ exit_status' = 1
    /\ pc' = "exited"
    /\ UNCHANGED <<argv_len, sqlite_master, conn, sql_log, tables, idx, columns,
                   foreign_keys, schema_lines, joinable_lines, schema, stdout>>
    /\ UNCHANGED normVars

\* Lines 65-92: the rest of one iteration.
EmitTable ==
    /\ pc = "emit"
    /\ schema_lines' =
          schema_lines \o TableBlock(tables[idx + 1], columns[idx + 1])
    /\ joinable_lines' =
          joinable_lines \o JoinableFor(tables[idx + 1], foreign_keys[idx + 1])
    /\ idx' = idx + 1
    /\ pc' = "loop"
    /\ UNCHANGED <<argv_len, sqlite_master, conn, sql_log, tables, columns,
                   foreign_keys, schema, stdout, stderr, exit_status>>
    /\ UNCHANGED normVars

\* Lines 94-107.
Finish ==
    /\ pc = "loop"
    /\ idx = Len(tables)
    /\ schema_lines' =
          schema_lines \o JoinableSection(joinable_lines) \o AllowStatement(tables)
    /\ conn' = "closed"
    /\ schema' = Join(schema_lines')
    /\ pc' = "print"
    /\ UNCHANGED <<argv_len, sqlite_master, sql_log, tables, idx, columns,
                   foreign_keys, joinable_lines, stdout, stderr, exit_status>>
    /\ UNCHANGED normVars

\* Line 116, then the interpreter exits.
PrintSchema ==
    /\ pc = "print"
    /\ stdout' = stdout \o schema \o "\n"
    /\ exit_status' = 0
    /\ pc' = "exited"
    /\ UNCHANGED <<argv_len, sqlite_master, conn, sql_log, tables, idx, columns,
                   foreign_keys, schema_lines, joinable_lines, schema, stderr>>
    /\ UNCHANGED normVars

Next ==
    \/ Main
    \/ Connect
    \/ ConnectFails
    \/ QueryTables
    \/ TableInfo
    \/ ForeignKeyList
    \/ ExecuteFails
    \/ EmitTable
    \/ Finish
    \/ PrintSchema

Spec == Init /\ [][Next]_vars

(***************************************************************************)
(* sql_type_to_diesel_type called on its own, over raw type strings made   *)
(* of the fragments below (so that keywords also arise across fragment     *)
(* boundaries, inside longer words and in mixed case).                     *)
(***************************************************************************)
Fragments ==
    {"INT", "IN", "T", "CHAR", "TEXT", "REAL", "FLOAT", "DOUBLE", "DATE",
     "TIME", "STAMP", "BOOL", "EAN", "BLOB", "FOOBAR", "VARCHAR(50)", "int",
     "Date", "blob", "time", "Char", "real", "NUMERIC", "(10)", " "}

RECURSIVE Concat(_)
Concat(parts) == IF Len(parts) = 0 THEN "" ELSE parts[1] \o Concat(Tail(parts))

RawTypes ==
    UNION {{Concat(parts) : parts \in [1..n -> Fragments]} : n \in 0..MaxParts}

InitNorm ==
    /\ pc = "call"
    /\ sql_type \in RawTypes
    /\ is_nullable \in BOOLEAN
    /\ diesel_ret = "-"
    /\ argv_len = 1
    /\ sqlite_master = {}
    /\ conn = "none"
    /\ sql_log = <<>>
    /\ tables = <<>>
    /\ idx = 0
    /\ columns = <<>>
    /\ foreign_keys = <<>>
    /\ schema_lines = <<>>
    /\ joinable_lines = <<>>
    /\ schema = ""
    /\ stdout = ""
    /\ stderr = ""
    /\ exit_status = -1

\* Lines 8-42: one call.
NormalizeCall ==
    /\ pc = "call"
    /\ diesel_ret' = sql_type_to_diesel_type(sql_type, is_nullable)
    /\ pc' = "ret"
    /\ UNCHANGED <<sql_type, is_nullable>>
    /\ UNCHANGED progVars

NextNorm == NormalizeCall

SpecNorm == InitNorm /\ [][NextNorm]_vars

(***************************************************************************)
(* Helpers of the properties.                                              *)
(***************************************************************************)
StartsWith(s, prefix) ==
    Len(s) >= Len(prefix) /\ SubSeq(s, 1, Len(prefix)) = prefix

EndsWith(s, suffix) ==
    Len(s) >= Len(suffix) /\ SubSeq(s, Len(s) - Len(suffix) + 1, Len(s)) = suffix

\* c is the character k (an upper-case letter or another character) in either case.
CharEqIgnoreCase(c, k) ==
    \/ c = k
    \/ \E n \in 1..Len(UpperCase) : Char(UpperCase, n) = k /\ Char(LowerCase, n) = c

\* s holds the keyword kw as a substring, whatever the case of its letters.
HasKeyword(s, kw) ==
    \E i \in 1..(Len(s) - Len(kw) + 1) :
        \A j \in 1..Len(kw) : CharEqIgnoreCase(Char(s, i + j - 1), Char(kw, j))

\* s is the keyword kw, whatever the case of its letters.
IsKeyword(s, kw) == Len(s) = Len(kw) /\ HasKeyword(s, kw)

AbstractColumnTypes ==
    {"Integer", "Text", "Float", "Bool", "Date", "Time", "Timestamp", "Binary"}

\* The priority list of the type normaliser as the specification words it.
RuleListType(raw) ==
    CASE HasKeyword(raw, "INT") -> "Integer"
      [] ~HasKeyword(raw, "INT")
         /\ (HasKeyword(raw, "CHAR") \/ HasKeyword(raw, "TEXT")) -> "Text"
      [] /\ ~HasKeyword(raw, "INT") /\ ~HasKeyword(raw, "CHAR")
         /\ ~HasKeyword(raw, "TEXT")
         /\ \/ HasKeyword(raw, "REAL") \/ HasKeyword(raw, "FLOAT")
            \/ HasKeyword(raw, "DOUBLE") -> "Float"
      [] /\ ~HasKeyword(raw, "INT") /\ ~HasKeyword(raw, "CHAR")
         /\ ~HasKeyword(raw, "TEXT") /\ ~HasKeyword(raw, "REAL")
         /\ ~HasKeyword(raw, "FLOAT") /\ ~HasKeyword(raw, "DOUBLE")
         /\ HasKeyword(raw, "DATE") ->
            IF HasKeyword(raw, "TIME") THEN "Timestamp" ELSE "Date"
      [] OTHER ->
            IF IsKeyword(raw, "BOOLEAN") \/ IsKeyword(raw, "BOOL") THEN "Bool"
            ELSE IF IsKeyword(raw, "TIME") THEN "Time"
            ELSE IF IsKeyword(raw, "TIMESTAMP") THEN "Timestamp"
            ELSE IF IsKeyword(raw, "BLOB") THEN "Binary"
            ELSE "Text"

\* The table of section 8 of the specification.
TypeExamples ==
    {<<"INT", "Integer">>, <<"VARCHAR(50)", "Text">>, <<"DOUBLE", "Float">>,
     <<"BOOLEAN", "Bool">>, <<"DATETIME", "Timestamp">>, <<"DATE", "Date">>,
     <<"BLOB", "Binary">>, <<"FOOBAR", "Text">>}

\* The result of the call without its Nullable<...> wrapping.
Unwrapped ==
    IF is_nullable /\ StartsWith(diesel_ret, "Nullable<") /\ EndsWith(diesel_ret, ">")
    THEN SubSeq(diesel_ret, 10, Len(diesel_ret) - 1)
    ELSE diesel_ret

\* C1: every call of sql_type_to_diesel_type returns a value of the closed
\* vocabulary, with or without the wrapper, and the unwrapped result is the
\* abstract column type the first matching rule of the priority list gives (INT; CHAR or TEXT; REAL, FLOAT or DOUBLE; DATE with or without TIME;
\* the exact-match table; Text otherwise), the keywords matched in any case;
\* the eight examples of the specification's table map as it says.
C1_FirstMatchingRule ==
    pc = "ret" =>
        /\ Unwrapped \in AbstractColumnTypes
        /\ Unwrapped = RuleListType(sql_type)
        /\ \A ex \in TypeExamples : sql_type = ex[1] => Unwrapped = ex[2]

\* C1 witness: a nullable call on a mixed-case type that only the exact-match
\* table resolves has returned.
C1_Witness ==
    /\ pc = "ret"
    /\ sql_type = "blob"
    /\ is_nullable
    /\ diesel_ret = "Nullable<Binary>"

(***************************************************************************)
(* Positions in schema_lines.                                              *)
(***************************************************************************)
\* Number of lines of the first n table blocks: each block has two opening
\* lines, one line per column, two closing lines and a blank line.
RECURSIVE BlocksLen(_)
BlocksLen(n) == IF n = 0 THEN 0 ELSE BlocksLen(n - 1) + Len(columns[n]) + 5

\* Block i occupies the lines BlockStart(i) + 1 .. BlockStart(i + 1).
BlockStart(i) == Len(Header) + BlocksLen(i - 1)

\* generate_schema has just returned the document.
Returned == pc = "print"

\* C2: in the returned document the binding line of a column carries the Nullable<...> wrapper exactly
\* when its not-null flag and its primary-key flag are both unset; a
\* primary-key INTEGER column is rendered Integer and a TEXT column with both
\* flags unset Nullable<Text>.
C2_NullableIffNeitherFlag ==
    Returned => \A i \in 1..idx : \A j \in 1..Len(columns[i]) :
        LET col  == columns[i][j]
            line == schema_lines[BlockStart(i) + 2 + j]
            bind == "        " \o col.name \o " -> "
        IN /\ Contains(line, "Nullable<") <=> (col.notnull = 0 /\ col.pk = 0)
           /\ col.pk # 0 /\ col.type = "INTEGER" => line = bind \o "Integer,"
           /\ col.pk = 0 /\ col.notnull = 0 /\ col.type = "TEXT"
                 => line = bind \o "Nullable<Text>,"

\* C2 witness: a block holds a primary-key column whose not-null flag is unset,
\* rendered bare, and a TEXT column with both flags unset, rendered nullable.
C2_Witness ==
    Returned /\ \E i \in 1..idx : \E j, k \in 1..Len(columns[i]) :
        /\ columns[i][j].pk # 0 /\ columns[i][j].notnull = 0
        /\ columns[i][j].type = "INTEGER"
        /\ EndsWith(schema_lines[BlockStart(i) + 2 + j], " -> Integer,")
        /\ columns[i][k].pk = 0 /\ columns[i][k].notnull = 0
        /\ columns[i][k].type = "TEXT"
        /\ EndsWith(schema_lines[BlockStart(i) + 2 + k], " -> Nullable<Text>,")

\* The relationship statements the specification asks for, from foreign key j
\* of table i onwards: table order outside, foreign-key order inside.
RECURSIVE RelationshipsFrom(_, _)
RelationshipsFrom(i, j) ==
    IF i > idx THEN <<>>
    ELSE IF j > Len(foreign_keys[i]) THEN RelationshipsFrom(i + 1, 1)
    ELSE LET fk == foreign_keys[i][j]
         IN (IF fk.table # tables[i]
             THEN <<"diesel::joinable!(" \o tables[i] \o " -> " \o fk.table
                       \o " (" \o fk.from \o "));">>
             ELSE <<>>)
            \o RelationshipsFrom(i, j + 1)

IsRelationship(line) == StartsWith(line, "diesel::joinable!(")

\* C3: in the returned document the relationship statements are, in table
\* order then foreign-key order, one per foreign key whose referenced table is
\* not the owning table (none for a self-reference), each naming owning table,
\* referenced table and local column, and all of them follow the table blocks.
C3_RelationshipStatements ==
    Returned =>
        /\ SelectSeq(schema_lines, IsRelationship) = RelationshipsFrom(1, 1)
        /\ \A k \in 1..Len(schema_lines) :
              IsRelationship(schema_lines[k]) => k > BlockStart(idx + 1)

\* C3 witness: a document was returned for tables with a self-referencing
\* foreign key and a foreign key to another table.
C3_Witness ==
    /\ Returned
    /\ \E i \in 1..idx : \E j \in 1..Len(foreign_keys[i]) :
          foreign_keys[i][j].table = tables[i]
    /\ \E i \in 1..idx : \E j \in 1..Len(foreign_keys[i]) :
          foreign_keys[i][j].table # tables[i]
    /\ Len(SelectSeq(schema_lines, IsRelationship)) = 1

\* The line of a block that names the table and its primary key.
IsBlockOpening(line) ==
    StartsWith(line, "    ") /\ ~StartsWith(line, "     ") /\ EndsWith(line, ") {")

\* The lines of the closing statement, without its first and last line.
AllowEntries ==
    SubSeq(schema_lines, Len(schema_lines) - Len(tables), Len(schema_lines) - 1)

\* C4: in the returned document the table blocks come in ascending order of
\* table name, and the closing statement lists every table of the result set
\* once, one per line, in the same order, whatever its columns and foreign keys.
C4_LexicographicOrder ==
    Returned =>
        LET openings == SelectSeq(schema_lines, IsBlockOpening)
        IN /\ Len(openings) = Len(tables)
           /\ \A i \in 1..Len(tables) :
                 /\ StartsWith(openings[i], "    " \o tables[i] \o " (")
                 /\ schema_lines[BlockStart(i) + 2] = openings[i]
                 /\ AllowEntries[i] = "    " \o tables[i] \o ","
           /\ \A i, j \in 1..Len(tables) : i < j => StrLess(tables[i], tables[j])
           /\ {tables[i] : i \in 1..Len(tables)} = sqlite_master \ {"sqlite_sequence"}
           /\ schema_lines[Len(schema_lines) - Len(tables) - 1]
                 = "diesel::allow_tables_to_appear_in_same_query!("
           /\ schema_lines[Len(schema_lines)] = ");"

\* C4 witness: a document was returned for two tables, posts before users, one
\* of them without columns and foreign keys.
C4_Witness ==
    /\ Returned
    /\ tables = <<"posts", "users">>
    /\ \E i \in 1..2 : columns[i] = <<>> /\ foreign_keys[i] = <<>>
    /\ \E i \in 1..2 : columns[i] # <<>>

\* The primary-key identifier the specification asks for: the name of the first
\* flagged column, the default 'id' when no column is flagged.
DerivedPrimaryKey(cols) ==
    IF \E j \in 1..Len(cols) : cols[j].pk # 0
    THEN cols[CHOOSE j \in 1..Len(cols) :
                  cols[j].pk # 0 /\ \A k \in 1..(j - 1) : cols[k].pk = 0].name
    ELSE "id"

\* C5: the block-opening line of every table names the first column, in ordinal
\* order, whose primary-key flag is set, and 'id' when no column has the flag.
C5_PrimaryKeyIdentifier ==
    \A i \in 1..idx :
        schema_lines[BlockStart(i) + 2]
            = "    " \o tables[i] \o " (" \o DerivedPrimaryKey(columns[i]) \o ") {"

\* C6: a run with a wrong argument count exits with status 1, its usage
\* message on standard error and nothing on standard output; a successful run
\* with one argument prints the whole document and exits with status 0.
C6_UsageOnDiagnosticStream ==
    pc = "exited" =>
        /\ argv_len # 2 =>
              /\ exit_status = 1
              /\ Contains(stderr, "Usage")
              /\ stdout = ""
        /\ argv_len = 2 /\ conn = "closed" =>
              /\ exit_status = 0
              /\ stdout = schema \o "\n"

HasBlock(name) ==
    \E k \in 1..Len(schema_lines) :
        StartsWith(schema_lines[k], "    " \o name \o " (")

HasAllowEntry(name) ==
    \E k \in 1..Len(schema_lines) : schema_lines[k] = "    " \o name \o ","

\* C7: in the returned document no table the database engine owns has a block
\* or an entry in the closing statement, and every user table has both.
C7_NoEngineTables ==
    Returned =>
        \A name \in sqlite_master :
            IF IsEngineTable(name)
            THEN ~HasBlock(name) /\ ~HasAllowEntry(name)
            ELSE HasBlock(name) /\ HasAllowEntry(name)

IsReadOnlyStatement(sql) ==
    \/ StartsWith(sql, "SELECT ")
    \/ StartsWith(sql, "PRAGMA table_info(")
    \/ StartsWith(sql, "PRAGMA foreign_key_list(")

\* C8: when a run that opened a connection and read the table list has ended,
\* with a document or with a failure of a per-table metadata query, the
\* connection is closed and only reading statements were executed.
C8_ConnectionClosed ==
    pc = "exited" /\ conn # "none" /\ Len(sql_log) >= 1 =>
        /\ conn = "closed"
        /\ \A k \in 1..Len(sql_log) : IsReadOnlyStatement(sql_log[k])

AllowOpening == "diesel::allow_tables_to_appear_in_same_query!("

\* C9: the returned document is the two header lines, the table blocks each
\* ending in a blank line, the relationship statements followed by one blank
\* line when there is at least one, and the closing statement; without a
\* foreign key to another table the closing statement follows the last block
\* directly.
C9_DocumentLayout ==
    Returned =>
        LET n  == Len(schema_lines)
            be == BlockStart(idx + 1)
            r  == Len(SelectSeq(schema_lines, IsRelationship))
            a  == be + (IF r > 0 THEN r + 1 ELSE 0) + 1
        IN /\ idx = Len(tables)
           /\ schema_lines[1] = "// @generated automatically by generate_schema.py"
           /\ schema_lines[2] = ""
           /\ \A i \in 1..idx :
                 /\ schema_lines[BlockStart(i) + 1] = "diesel::table! {"
                 /\ schema_lines[BlockStart(i + 1) - 2] = "    }"
                 /\ schema_lines[BlockStart(i + 1) - 1] = "}"
                 /\ schema_lines[BlockStart(i + 1)] = ""
           /\ \A k \in (be + 1)..(be + r) : IsRelationship(schema_lines[k])
           /\ r > 0 => schema_lines[be + r + 1] = ""
           /\ r = 0 <=> \A i \in 1..idx : \A j \in 1..Len(foreign_keys[i]) :
                            foreign_keys[i][j].table = tables[i]
           /\ schema_lines[a] = AllowOpening
           /\ n = a + Len(tables) + 1
           /\ schema_lines[n] = ");"
           /\ schema = Join(schema_lines)

\* C9 witness: a document was returned whose only foreign keys are
\* self-references: the closing statement follows the last block directly.
C9_Witness ==
    /\ Returned
    /\ \E i \in 1..idx : foreign_keys[i] # <<>>
    /\ \A i \in 1..idx : \A j \in 1..Len(foreign_keys[i]) :
          foreign_keys[i][j].table = tables[i]
    /\ schema_lines[BlockStart(idx + 1) + 1] = AllowOpening

Renderings ==
    AbstractColumnTypes \cup {"Nullable<" \o t \o ">" : t \in AbstractColumnTypes}

\* C10: in the returned document every block holds, between its opening and its closing line, one
\* binding line '<column-name> -> <type-rendering>,' per column in ordinal
\* order; a table without columns has its closing line right after its opening.
C10_OneBindingPerColumn ==
    Returned => \A i \in 1..idx :
        LET cols == columns[i]
            bs   == BlockStart(i)
        IN /\ IsBlockOpening(schema_lines[bs + 2])
           /\ \A j \in 1..Len(cols) :
                 LET line == schema_lines[bs + 2 + j]
                     bind == "        " \o cols[j].name \o " -> "
                 IN /\ cols[j].cid = j - 1
                    /\ StartsWith(line, bind)
                    /\ EndsWith(line, ",")
                    /\ SubSeq(line, Len(bind) + 1, Len(line) - 1) \in Renderings
           /\ schema_lines[bs + 3 + Len(cols)] = "    }"
           /\ schema_lines[bs + 4 + Len(cols)] = "}"

\* C10 witness: a table without columns got a block whose closing line follows
\* its opening line, and another table a block with two binding lines.
C10_Witness ==
    Returned /\ \E i, k \in 1..idx :
        /\ columns[i] = <<>>
        /\ IsBlockOpening(schema_lines[BlockStart(i) + 2])
        /\ schema_lines[BlockStart(i) + 3] = "    }"
        /\ Len(columns[k]) = 2

====
